---- MODULE Spec2Model ----
(***************************************************************************)
(* A model of the JVM ClassFile decoder of rusty_classfile (src/lib.rs,    *)
(* src/macros.rs): read_from and read_constant_pool_item over a buffered   *)
(* reader whose underlying source delivers its bytes chunk by chunk.       *)
(***************************************************************************)
EXTENDS Integers, Sequences, FiniteSets, TLC

VARIABLES
    pc,                   \* position of read_from: magic, version, count, loop, trailer, done
    reader,               \* BufReader<R>: the source's pending chunks, the buffer, the cursor
    minor,                \* let minor
    major,                \* let major
    constant_pool_count,  \* let constant_pool_count (the target slot count, field - 1)
    constant_pool_index,  \* let mut constant_pool_index
    constant_pool_items,  \* let mut constant_pool_items
    result,               \* what read_from returned (kind "none" until it returns)
    overflow_checks,      \* build profile: TRUE panics on integer overflow, FALSE wraps
    stream,               \* the bytes the source holds before its repeated block
    obs                   \* observations of the run: tag offsets, iteration counts

vars == <<pc, reader, minor, major, constant_pool_count, constant_pool_index,
          constant_pool_items, result, overflow_checks, stream, obs>>

(***************************************************************************)
(* Program constants                                                       *)
(***************************************************************************)
U8Mod == 256

U16Mod == 65536

MAGIC == <<202, 254, 186, 190>>

\* The invocation of reversible_enum!: the keys and their discriminants, in order.
ConstantPoolItemTag ==
    << <<"Utf8", 1>>, <<"Integer", 3>>, <<"Float", 4>>, <<"Long", 5>>,
       <<"Double", 6>>, <<"Class", 7>>, <<"String", 8>>, <<"FieldRef", 9>>,
       <<"MethodRef", 10>>, <<"InterfaceMethodRef", 11>>, <<"NameAndType", 12>>,
       <<"MethodHandle", 15>>, <<"MethodType", 16>>, <<"InvokeDynamic", 18>> >>

(***************************************************************************)
(* Values returned by read_from                                            *)
(***************************************************************************)
NoResult == [kind |-> "none", bytes |-> <<>>, version |-> <<>>, constant_pool |-> <<>>]

IoError == [kind |-> "IoError", bytes |-> <<>>, version |-> <<>>, constant_pool |-> <<>>]

Utf8DecodeError == [kind |-> "Utf8DecodeError", bytes |-> <<>>, version |-> <<>>, constant_pool |-> <<>>]

InvalidMagic(buf) == [kind |-> "InvalidMagic", bytes |-> buf, version |-> <<>>, constant_pool |-> <<>>]

InvalidConstantPoolItemTag(value) ==
    [kind |-> "InvalidConstantPoolItemTag", bytes |-> <<value>>, version |-> <<>>, constant_pool |-> <<>>]

\* An arithmetic-overflow panic: the call unwinds and returns nothing.
Panic == [kind |-> "panic", bytes |-> <<>>, version |-> <<>>, constant_pool |-> <<>>]

\* Ok(ClassFile { version: ClassFileVersion(major, minor), constant_pool })
ClassFile(maj, min, items) ==
    [kind |-> "Ok", bytes |-> <<>>, version |-> <<maj, min>>, constant_pool |-> items]

(***************************************************************************)
(* The byte source and BufReader::read_exact                               *)
(*   reader.inner : the chunks the source has still to deliver, one per    *)
(*                  read call                                              *)
(*   reader.block, reader.times : a block the source delivers `times` more *)
(*                  times once inner is exhausted (a compact description   *)
(*                  of a long stream); end of stream after that            *)
(*   reader.bufd  : bytes fetched from the source and not yet consumed     *)
(*   reader.pos   : the cursor, the number of bytes consumed               *)
(*   reader.eof   : a read met the end of the stream before it was filled  *)
(*   reader.fetches : the read calls the source has answered with bytes    *)
(***************************************************************************)
Min(a, b) == IF a <= b THEN a ELSE b

RECURSIVE read_exact_short(_, _, _)
\* A reader that gives up at a chunk boundary (read in place of read_exact).
read_exact_short(r, n, acc) ==
    IF n = 0 THEN [ok |-> TRUE, bytes |-> acc, r |-> r]
    ELSE IF r.bufd # <<>> THEN
        LET k == Min(n, Len(r.bufd)) IN
        IF k < n
        THEN [ok |-> FALSE, bytes |-> acc \o r.bufd,
              r |-> [r EXCEPT !.bufd = <<>>, !.pos = @ + k, !.eof = TRUE]]
        ELSE [ok |-> TRUE, bytes |-> acc \o SubSeq(r.bufd, 1, k),
              r |-> [r EXCEPT !.bufd = SubSeq(@, k + 1, Len(@)), !.pos = @ + k]]
    ELSE IF r.inner # <<>> THEN
        read_exact_short([r EXCEPT !.bufd = Head(r.inner), !.inner = Tail(@), !.fetches = @ + 1], n, acc)
    ELSE IF r.times > 0 THEN
        read_exact_short([r EXCEPT !.bufd = r.block, !.times = @ - 1, !.fetches = @ + 1], n, acc)
    ELSE [ok |-> FALSE, bytes |-> acc, r |-> [r EXCEPT !.eof = TRUE]]

RECURSIVE read_exact(_, _, _)
\* Fill n bytes: take what is buffered, fetch the next chunk when the buffer is
\* empty, fail with UnexpectedEof when the source has nothing more.
read_exact(r, n, acc) ==
    IF n = 0 THEN [ok |-> TRUE, bytes |-> acc, r |-> r]
    ELSE IF r.bufd # <<>> THEN
        LET k == Min(n, Len(r.bufd)) IN
        read_exact([r EXCEPT !.bufd = SubSeq(@, k + 1, Len(@)), !.pos = @ + k],
                   n - k, acc \o SubSeq(r.bufd, 1, k))
    ELSE IF r.inner # <<>> THEN
        read_exact([r EXCEPT !.bufd = Head(r.inner), !.inner = Tail(@), !.fetches = @ + 1], n, acc)
    ELSE IF r.times > 0 THEN
        read_exact([r EXCEPT !.bufd = r.block, !.times = @ - 1, !.fetches = @ + 1], n, acc)
    ELSE [ok |-> FALSE, bytes |-> acc, r |-> [r EXCEPT !.eof = TRUE]]

(***************************************************************************)
(* from_be_bytes.  The model checker's integers are 32 bits wide, so the   *)
(* 64-bit values are kept as four 16-bit limbs, most significant first,    *)
(* the top limb carrying the sign.                                         *)
(***************************************************************************)
u16_from_be_bytes(b) == b[1] * U8Mod + b[2]

i16_from_be_bytes(b) ==
    IF b[1] >= 128 THEN u16_from_be_bytes(b) - U16Mod ELSE u16_from_be_bytes(b)

i32_from_be_bytes(b) ==
    i16_from_be_bytes(SubSeq(b, 1, 2)) * U16Mod + u16_from_be_bytes(SubSeq(b, 3, 4))

i64_from_be_bytes(b) ==
    << i16_from_be_bytes(SubSeq(b, 1, 2)), u16_from_be_bytes(SubSeq(b, 3, 4)),
       u16_from_be_bytes(SubSeq(b, 5, 6)), u16_from_be_bytes(SubSeq(b, 7, 8)) >>

\* read_bytes!(self, ty, N): read_exact into [0u8; N] (the ? returns its error),
\* then Ok(ty::from_be_bytes(buf)).  x is what read_exact returned.
u8_from(x) == [ok |-> x.ok, val |-> IF x.ok THEN x.bytes[1] ELSE 0, r |-> x.r]

u16_from(x) == [ok |-> x.ok, val |-> IF x.ok THEN u16_from_be_bytes(x.bytes) ELSE 0, r |-> x.r]

i32_from(x) == [ok |-> x.ok, val |-> IF x.ok THEN <<i32_from_be_bytes(x.bytes)>> ELSE <<>>, r |-> x.r]

i64_from(x) == [ok |-> x.ok, val |-> IF x.ok THEN i64_from_be_bytes(x.bytes) ELSE <<>>, r |-> x.r]

read_u8(r) == u8_from(read_exact(r, 1, <<>>))

read_u16(r) == u16_from(read_exact(r, 2, <<>>))

read_i32(r) == i32_from(read_exact(r, 4, <<>>))

\* f32::from_be_bytes and f64::from_be_bytes keep the bit pattern: the item
\* holds the bits, as the integer of the same width.
read_f32(r) == i32_from(read_exact(r, 4, <<>>))

read_i64(r) == i64_from(read_exact(r, 8, <<>>))

read_f64(r) == i64_from(read_exact(r, 8, <<>>))

(***************************************************************************)
(* String::from_utf8: the well-formed byte sequences of UTF-8              *)
(***************************************************************************)
Cont(b, i) == i <= Len(b) /\ b[i] >= 128 /\ b[i] <= 191

RECURSIVE utf8_valid_from(_, _)
utf8_valid_from(b, i) ==
    IF i > Len(b) THEN TRUE
    ELSE LET c == b[i] IN
         IF c < 128 THEN utf8_valid_from(b, i + 1)
         ELSE IF c >= 194 /\ c <= 223 THEN
             Cont(b, i + 1) /\ utf8_valid_from(b, i + 2)
         ELSE IF c >= 224 /\ c <= 239 THEN
             /\ Cont(b, i + 1) /\ Cont(b, i + 2)
             /\ (c = 224 => b[i + 1] >= 160)
             /\ (c = 237 => b[i + 1] <= 159)
             /\ utf8_valid_from(b, i + 3)
         ELSE IF c >= 240 /\ c <= 244 THEN
             /\ Cont(b, i + 1) /\ Cont(b, i + 2) /\ Cont(b, i + 3)
             /\ (c = 240 => b[i + 1] >= 144)
             /\ (c = 244 => b[i + 1] <= 143)
             /\ utf8_valid_from(b, i + 4)
         ELSE FALSE

from_utf8(b) == [ok |-> utf8_valid_from(b, 1), val |-> b]

(***************************************************************************)
(* reversible_enum!: TryFrom<u8> for ConstantPoolItemTag                   *)
(***************************************************************************)
\* The match generated with the InvokeDynamic arm written 17 in place of 18.
try_from_shifted(value) ==
    LET arms == [i \in 1..Len(ConstantPoolItemTag) |->
                    IF ConstantPoolItemTag[i][1] = "InvokeDynamic"
                    THEN <<"InvokeDynamic", 17>> ELSE ConstantPoolItemTag[i]]
        hits == {i \in 1..Len(arms) : arms[i][2] = value}
    IN IF hits = {} THEN [ok |-> FALSE, tag |-> "invalid"]
       ELSE [ok |-> TRUE, tag |-> arms[CHOOSE i \in hits : \A j \in hits : i <= j][1]]

\* match value { $($val => Ok($name::$key),)* _ => Err(InvalidConstantPoolItemTag(value)) }
try_from(value) ==
    LET hits == {i \in 1..Len(ConstantPoolItemTag) : ConstantPoolItemTag[i][2] = value}
    IN IF hits = {} THEN [ok |-> FALSE, tag |-> "invalid"]
       ELSE [ok |-> TRUE,
             tag |-> ConstantPoolItemTag[CHOOSE i \in hits : \A j \in hits : i <= j][1]]

(***************************************************************************)
(* ConstantPoolItem: <<variant, value>>                                    *)
(***************************************************************************)
Unsupported == <<"Unsupported", <<>>>>

\* The predicate with the Double variant forgotten.
is_8byte_long_only(item) == item[1] = "Long"

\* match &self { Long(_) | Double(_) => true, _ => false }
is_8byte(item) == item[1] = "Long" \/ item[1] = "Double"

(***************************************************************************)
(* read_constant_pool_item: the tag byte, the conversion, the payload.     *)
(* The result carries the reader as the call left it and, for the          *)
(* observations, the tag byte and the tag it converted to.                 *)
(***************************************************************************)
ItemOk(item, r) == [ok |-> TRUE, item |-> item, err |-> NoResult, r |-> r]

ItemErr(e, r) == [ok |-> FALSE, item |-> Unsupported, err |-> e, r |-> r]

\* The last read of an unsupported entry: a is what the read returned.
\* let _x = read()?; Ok(ConstantPoolItem::Unsupported)
unsupported_after(a) ==
    IF ~a.ok THEN ItemErr(IoError, a.r) ELSE ItemOk(Unsupported, a.r)

\* Class, String, MethodType: one u16
skip_u16(r) == unsupported_after(read_u16(r))

\* A first read, then one u16 more.
then_u16(a) == IF ~a.ok THEN ItemErr(IoError, a.r) ELSE skip_u16(a.r)

\* FieldRef, MethodRef, InterfaceMethodRef, NameAndType, InvokeDynamic: two u16
skip_u16_u16(r) == then_u16(read_u16(r))

\* MethodHandle with the reference kind read as a u16: one byte too many.
read_method_handle_wide(r) == then_u16(read_u16(r))

\* MethodHandle: let _reference_kind = read_u8()?; let _reference_index = read_u16()?;
read_method_handle(r) == then_u16(read_u8(r))

\* Ok(ConstantPoolItem::Utf8(String::from_utf8(utf8_bytes)?))
utf8_item(str, r) ==
    IF ~str.ok THEN ItemErr(Utf8DecodeError, r) ELSE ItemOk(<<"Utf8", str.val>>, r)

\* buf_read.read_exact(&mut utf8_bytes)?
utf8_text(x) ==
    IF ~x.ok THEN ItemErr(IoError, x.r) ELSE utf8_item(from_utf8(x.bytes), x.r)

\* let strlen = read_u16()?; let mut utf8_bytes = vec![0; strlen as usize];
utf8_payload(strlen) ==
    IF ~strlen.ok THEN ItemErr(IoError, strlen.r)
    ELSE utf8_text(read_exact(strlen.r, strlen.val, <<>>))

read_utf8(r) == utf8_payload(read_u16(r))

\* Ok(ConstantPoolItem::Variant(read()?))
read_value(variant, v) ==
    IF ~v.ok THEN ItemErr(IoError, v.r) ELSE ItemOk(<<variant, v.val>>, v.r)

\* match type_tag { ... }
read_payload(type_tag, r) ==
    CASE type_tag = "Utf8" -> read_utf8(r)
      [] type_tag = "Integer" -> read_value("Integer", read_i32(r))
      [] type_tag = "Float" -> read_value("Float", read_f32(r))
      [] type_tag = "Long" -> read_value("Long", read_i64(r))
      [] type_tag = "Double" -> read_value("Double", read_f64(r))
      [] type_tag = "Class" -> skip_u16(r)
      [] type_tag = "String" -> skip_u16(r)
      [] type_tag = "FieldRef" -> skip_u16_u16(r)
      [] type_tag = "MethodRef" -> skip_u16_u16(r)
      [] type_tag = "InterfaceMethodRef" -> skip_u16_u16(r)
      [] type_tag = "NameAndType" -> skip_u16_u16(r)
      [] type_tag = "MethodHandle" -> read_method_handle(r)
      [] type_tag = "MethodType" -> skip_u16(r)
      [] type_tag = "InvokeDynamic" -> skip_u16_u16(r)

\* let type_tag = ConstantPoolItemTag::try_from(type_tag)?; match type_tag { ... }
item_of_tag(type_tag, b) ==
    IF ~type_tag.ok
    THEN ItemErr(InvalidConstantPoolItemTag(b.val), b.r) @@ [byte |-> b.val, tag |-> "invalid"]
    ELSE read_payload(type_tag.tag, b.r) @@ [byte |-> b.val, tag |-> type_tag.tag]

\* let type_tag = buf_read.read_u8()?;
item_of_tag_byte(b) ==
    IF ~b.ok THEN ItemErr(IoError, b.r) @@ [byte |-> -1, tag |-> "none"]
    ELSE item_of_tag(try_from(b.val), b)

read_constant_pool_item(r) == item_of_tag_byte(read_u8(r))

(***************************************************************************)
(* read_from, one operator per stretch of the function.  A state s is the  *)
(* record of the variables; every operator returns the state the stretch   *)
(* leaves.                                                                 *)
(***************************************************************************)
Return(s, r, res) == [s EXCEPT !.pc = "done", !.reader = r, !.result = res]

\* The error payload names the expected bytes in place of the observed ones.
check_magic_expected(s, buf) ==
    IF ~buf.ok THEN Return(s, buf.r, IoError)
    ELSE IF MAGIC # buf.bytes THEN Return(s, buf.r, InvalidMagic(MAGIC))
    ELSE [s EXCEPT !.pc = "version", !.reader = buf.r]

\* buf_read.read_exact(&mut buf)?; if MAGIC != buf { return Err(InvalidMagic(buf)) }
check_magic(s, buf) ==
    IF ~buf.ok THEN Return(s, buf.r, IoError)
    ELSE IF MAGIC # buf.bytes THEN Return(s, buf.r, InvalidMagic(buf.bytes))
    ELSE [s EXCEPT !.pc = "version", !.reader = buf.r]

read_magic(s) == check_magic(s, read_exact(s.reader, 4, <<>>))

\* let major = read_u16()?;
version_major(s, mi, ma) ==
    IF ~ma.ok THEN Return(s, ma.r, IoError)
    ELSE [s EXCEPT !.pc = "count", !.reader = ma.r, !.minor = mi.val, !.major = ma.val]

\* let minor = read_u16()?;
version_minor(s, mi) ==
    IF ~mi.ok THEN Return(s, mi.r, IoError)
    ELSE version_major(s, mi, read_u16(mi.r))

read_version(s) == version_minor(s, read_u16(s.reader))

\* let constant_pool_count = read_u16()? - 1; the subtraction of a u16 panics on
\* overflow in a build with overflow checks and wraps in one without.
pool_count(s, field) ==
    IF ~field.ok THEN Return(s, field.r, IoError)
    ELSE IF field.val - 1 < 0 /\ s.overflow_checks
    THEN [Return(s, field.r, Panic) EXCEPT !.obs.countField = field.val]
    ELSE [s EXCEPT !.pc = "loop", !.reader = field.r,
                   !.obs.countField = field.val,
                   !.constant_pool_count = (field.val - 1) % U16Mod,
                   !.constant_pool_index = 0,
                   !.constant_pool_items = <<>>]

read_count(s) == pool_count(s, read_u16(s.reader))

\* What the run observes of a call of read_constant_pool_item that returned it.
observe(s, it) ==
    [s.obs EXCEPT !.tagPos = s.reader.pos,
                  !.tagByte = it.byte,
                  !.tag = it.tag,
                  !.tagReads = @ + (IF it.byte >= 0 THEN 1 ELSE 0),
                  !.decoded = it.ok,
                  !.itemEnd = it.r.pos]

\* constant_pool_index += step; constant_pool_items.push(item).  The addition
\* panics on overflow in a build with overflow checks and wraps in one without.
advance(s, it, step) ==
    IF s.constant_pool_index + step >= U16Mod /\ s.overflow_checks
    THEN [Return(s, it.r, Panic) EXCEPT !.obs = observe(s, it)]
    ELSE [s EXCEPT !.reader = it.r,
                   !.constant_pool_index = (@ + step) % U16Mod,
                   !.constant_pool_items = Append(@, it.item),
                   !.obs = [observe(s, it) EXCEPT !.iterations = @ + 1,
                                                  !.slots = @ + step]]

\* let item = read_constant_pool_item(&mut buf_read)?;
\* if item.is_8byte() { index += 2 } else { index += 1 }
push_item(s, it) ==
    IF ~it.ok THEN [Return(s, it.r, it.err) EXCEPT !.obs = observe(s, it)]
    ELSE advance(s, it, IF is_8byte(it.item) THEN 2 ELSE 1)

\* One pass of the loop: break, or decode one item, advance the index, push.
loop_step(s) ==
    IF s.constant_pool_index >= s.constant_pool_count
    THEN [s EXCEPT !.pc = "trailer", !.obs.exits = @ + 1]
    ELSE push_item(s, read_constant_pool_item(s.reader))

\* The last field's read with its error dropped (.ok() in place of ?).
finish_lenient(s, interfaces_count) ==
    Return(s, interfaces_count.r, ClassFile(s.major, s.minor, s.constant_pool_items))

\* let interfaces_count = read_u16()?;
\* Ok(ClassFile { version: ClassFileVersion(major, minor), constant_pool })
finish(s, interfaces_count) ==
    IF ~interfaces_count.ok THEN Return(s, interfaces_count.r, IoError)
    ELSE Return(s, interfaces_count.r,
                ClassFile(s.major, s.minor, s.constant_pool_items))

\* The fields left to read after one of them: x is what its read returned.
RECURSIVE trailer_fields(_, _, _)
trailer_fields(s, x, left) ==
    IF left = 0 THEN finish(s, x)
    ELSE IF ~x.ok THEN Return(s, x.r, IoError)
    ELSE trailer_fields(s, read_u16(x.r), left - 1)

\* let access_flags = read_u16()?; let this_class = read_u16()?;
\* let super_class = read_u16()?; let interfaces_count = read_u16()?;
read_trailer(s) == trailer_fields(s, read_u16(s.reader), 3)

step_of(s) ==
    CASE s.pc = "magic" -> read_magic(s)
      [] s.pc = "version" -> read_version(s)
      [] s.pc = "count" -> read_count(s)
      [] s.pc = "loop" -> loop_step(s)
      [] s.pc = "trailer" -> read_trailer(s)

RECURSIVE run(_)
run(s) == IF s.pc = "done" THEN s ELSE run(step_of(s))

\* The state read_from starts in: BufReader::new(reader), nothing read.
start(inner, block, times, checks) ==
    [pc |-> "magic",
     reader |-> [inner |-> inner, block |-> block, times |-> times,
                 bufd |-> <<>>, pos |-> 0, eof |-> FALSE, fetches |-> 0],
     minor |-> 0, major |-> 0,
     constant_pool_count |-> 0, constant_pool_index |-> 0,
     constant_pool_items |-> <<>>,
     result |-> NoResult,
     overflow_checks |-> checks,
     obs |-> [countField |-> -1, tagPos |-> -1, tagByte |-> -1, tag |-> "none",
              tagReads |-> 0, slots |-> 0, decoded |-> FALSE, itemEnd |-> -1,
              iterations |-> 0, exits |-> 0]]

\* read_from on a source that delivers the given chunks and then ends.
read_from(chunks, checks) == run(start(chunks, <<>>, 0, checks)).result

(***************************************************************************)
(* Bounds of the model                                                     *)
(***************************************************************************)
\* Entries after the header of an enumerated stream.
MaxEntries == 2

\* The constant_pool_count fields enumerated are 0..MaxCountField.
MaxCountField == 4

\* Utf8 entries carry 0..MaxUtf8Len bytes of text.
MaxUtf8Len == 2

\* The source delivers chunks of 1..MaxChunk bytes.
MaxChunk == 3

(***************************************************************************)
(* The byte streams read_from is run on                                    *)
(***************************************************************************)
u16_to_be_bytes(n) == <<n \div U8Mod, n % U8Mod>>

Header(min, maj, field) ==
    MAGIC \o u16_to_be_bytes(min) \o u16_to_be_bytes(maj) \o u16_to_be_bytes(field)

\* The input of test_valid_magic and test_network.
TestValidMagicInput == <<202, 254, 186, 190, 0, 10, 0, 10, 0, 0>>

\* The minimal valid header: minor 10, major 10, constant_pool_count 1.
MinimalHeader == <<202, 254, 186, 190, 0, 10, 0, 10, 0, 1>>

\* The input of test_invalid_magic.
TestInvalidMagicInput == <<0, 0, 0, 0>>

\* access_flags, this_class, super_class, interfaces_count
Trailer == <<0, 33, 0, 2, 0, 3, 0, 0>>

Text == <<104, 105, 33, 63, 46, 47>>

Utf8Entry(len) == <<1>> \o u16_to_be_bytes(len) \o SubSeq(Text, 1, len)

\* One entry per fixed-width tag; the payloads hold bytes that are tags themselves.
FixedEntries ==
    { <<3, 255, 255, 255, 214>>, <<4, 63, 128, 0, 0>>,
      <<5, 0, 0, 0, 1, 0, 0, 0, 42>>, <<6, 64, 9, 33, 251, 84, 68, 45, 24>>,
      <<7, 0, 9>>, <<8, 1, 7>>, <<9, 0, 5, 0, 6>>, <<10, 0, 1, 0, 3>>,
      <<11, 0, 8, 0, 7>>, <<12, 0, 4, 0, 15>>, <<15, 6, 0, 10>>, <<16, 0, 18>>,
      <<18, 0, 0, 0, 12>> }

ValidEntries == FixedEntries \cup {Utf8Entry(len) : len \in 0..MaxUtf8Len}

\* Entries the decoder rejects: text that is not UTF-8, a length prefix longer
\* than the stream, tags outside the enumeration.
BadEntries ==
    { <<1, 0, 2, 104, 128>>, <<1, 0, 1, 192>>, <<1, 1, 0, 104, 105>>,
      <<0, 0, 1>>, <<2, 0, 1>>, <<13, 0, 1>>, <<19, 0, 1, 0, 1>> }

RECURSIVE EntrySeqs(_)
\* The concatenations of at most n valid entries.
EntrySeqs(n) ==
    IF n = 0 THEN {<<>>}
    ELSE LET shorter == EntrySeqs(n - 1) IN
         shorter \cup {b \o e : b \in shorter, e \in ValidEntries}

\* Headers with every enumerated count field, followed by entries and the trailer.
PoolStreams ==
    { Header(258, 52, f) \o b \o Trailer : f \in 0..MaxCountField, b \in EntrySeqs(MaxEntries) }

Prefixes(b) == { SubSeq(b, 1, n) : n \in 0..Len(b) }

\* Every truncation of a one-entry and of a few two-entry class files.
TruncatedStreams ==
    UNION { Prefixes(Header(258, 52, 2) \o e \o Trailer) : e \in ValidEntries \cup BadEntries }
    \cup UNION { Prefixes(Header(10, 10, f) \o <<6, 64, 9, 33, 251, 84, 68, 45, 24>> \o e \o Trailer) :
                 f \in {0, 3, 4}, e \in {<<7, 0, 9>>, <<5, 0, 0, 0, 1, 0, 0, 0, 42>>} }

\* One stream per byte value at the first tag position, a parsable rest after it.
TagSweepStreams ==
    { Header(258, 52, 3) \o <<b>> \o <<0, 0, 0, 0, 0, 0, 0, 0>> \o <<7, 0, 9>> \o Trailer :
      b \in 0..(U8Mod - 1) }

BadMagics ==
    { <<0, 0, 0, 0>>, <<202, 254, 186, 191>>, <<203, 254, 186, 190>>,
      <<202, 254, 190, 186>>, <<190, 186, 254, 202>>, <<202, 254, 0, 190>> }

BadMagicStreams ==
    { m \o t : m \in BadMagics,
               t \in Prefixes(<<0, 10, 0, 10, 0, 2, 7, 0, 9>> \o Trailer) }

ShortStreams == { TestValidMagicInput, MinimalHeader, TestInvalidMagicInput }

Streams ==
    PoolStreams \cup TruncatedStreams \cup TagSweepStreams \cup BadMagicStreams
    \cup ShortStreams

RECURSIVE chunked(_, _, _)
\* b cut into chunks whose sizes follow the pattern, cyclically from its i-th size.
chunked(b, sizes, i) ==
    IF b = <<>> THEN <<>>
    ELSE LET k == Min(sizes[i], Len(b)) IN
         <<SubSeq(b, 1, k)>> \o chunked(SubSeq(b, k + 1, Len(b)), sizes, (i % Len(sizes)) + 1)

whole(b) == IF b = <<>> THEN <<>> ELSE <<b>>

ChunkPatterns ==
    { <<k>> : k \in 1..MaxChunk } \cup { <<j, k>> : j, k \in 1..MaxChunk }

\* The streams run under every chunking; the others arrive whole.
ChunkedStreams == TruncatedStreams \cup BadMagicStreams \cup ShortStreams

Inputs ==
    { [stream |-> b, inner |-> whole(b)] : b \in Streams }
    \cup { [stream |-> b, inner |-> chunked(b, p, 1)] : b \in ChunkedStreams, p \in ChunkPatterns }

(***************************************************************************)
(* The state machine                                                       *)
(***************************************************************************)
Cur ==
    [pc |-> pc, reader |-> reader, minor |-> minor, major |-> major,
     constant_pool_count |-> constant_pool_count,
     constant_pool_index |-> constant_pool_index,
     constant_pool_items |-> constant_pool_items,
     result |-> result, overflow_checks |-> overflow_checks, obs |-> obs]

Commit(n) ==
    /\ pc' = n.pc
    /\ reader' = n.reader
    /\ minor' = n.minor
    /\ major' = n.major
    /\ constant_pool_count' = n.constant_pool_count
    /\ constant_pool_index' = n.constant_pool_index
    /\ constant_pool_items' = n.constant_pool_items
    /\ result' = n.result
    /\ obs' = n.obs
    /\ UNCHANGED <<overflow_checks, stream>>

Begin(b, s) ==
    /\ stream = b
    /\ pc = s.pc
    /\ reader = s.reader
    /\ minor = s.minor
    /\ major = s.major
    /\ constant_pool_count = s.constant_pool_count
    /\ constant_pool_index = s.constant_pool_index
    /\ constant_pool_items = s.constant_pool_items
    /\ result = s.result
    /\ overflow_checks = s.overflow_checks
    /\ obs = s.obs

Init ==
    \E i \in Inputs, checks \in BOOLEAN :
        Begin(i.stream, start(i.inner, <<>>, 0, checks))

ReadMagic == pc = "magic" /\ Commit(read_magic(Cur))

ReadVersion == pc = "version" /\ Commit(read_version(Cur))

ReadPoolCount == pc = "count" /\ Commit(read_count(Cur))

LoopBreak ==
    /\ pc = "loop"
    /\ constant_pool_index >= constant_pool_count
    /\ Commit(loop_step(Cur))

ReadItem ==
    /\ pc = "loop"
    /\ constant_pool_index < constant_pool_count
    /\ Commit(loop_step(Cur))

ReadTrailer == pc = "trailer" /\ Commit(read_trailer(Cur))

Next ==
    \/ ReadMagic
    \/ ReadVersion
    \/ ReadPoolCount
    \/ LoopBreak
    \/ ReadItem
    \/ ReadTrailer

Spec == Init /\ [][Next]_vars

(***************************************************************************)
(* A long class file, described compactly: the header of test_valid_magic  *)
(* (count field 0) followed by one Long entry repeated U16Mod / 2 + 1      *)
(* times, read by a build without overflow checks.                         *)
(*                                                                         *)
(* SpecLong runs read_from on it from the start.  after_long_entries(n, k) *)
(* is, in closed form, the state of that run once k of the n entries are   *)
(* decoded; LongRunMatches says the run passes through exactly these       *)
(* states for as long as the slot counter has not overflowed.  SpecWrap    *)
(* starts from the closed form WrapLead entries before the counter's last  *)
(* even value, and runs the truncated streams beside it.                   *)
(***************************************************************************)
LongEntry == <<5, 0, 0, 0, 1, 0, 0, 0, 42>>

LongEntries == U16Mod \div 2 + 1

WrapLead == 2

after_long_entries(n, k) ==
    [pc |-> "loop",
     reader |-> [inner |-> <<>>, block |-> LongEntry, times |-> n - k,
                 bufd |-> <<>>, pos |-> Len(TestValidMagicInput) + k * Len(LongEntry),
                 eof |-> FALSE, fetches |-> 1 + k],
     minor |-> 10, major |-> 10,
     constant_pool_count |-> U16Mod - 1, constant_pool_index |-> 2 * k,
     constant_pool_items |-> [i \in 1..k |-> <<"Long", <<0, 1, 0, 42>>>>],
     result |-> NoResult,
     overflow_checks |-> FALSE,
     obs |-> [countField |-> 0,
              tagPos |-> IF k = 0 THEN -1
                         ELSE Len(TestValidMagicInput) + (k - 1) * Len(LongEntry),
              tagByte |-> IF k = 0 THEN -1 ELSE 5,
              tag |-> IF k = 0 THEN "none" ELSE "Long",
              tagReads |-> k, slots |-> 2 * k, decoded |-> k > 0,
              itemEnd |-> IF k = 0 THEN -1
                          ELSE Len(TestValidMagicInput) + k * Len(LongEntry),
              iterations |-> k, exits |-> 0]]

InitLong ==
    Begin(TestValidMagicInput,
          start(whole(TestValidMagicInput), LongEntry, LongEntries, FALSE))

SpecLong == InitLong /\ [][Next]_vars

\* Every loop state of the long run, up to the overflow, is the closed form.
LongRunMatches ==
    (pc = "loop" /\ obs.slots < U16Mod) => Cur = after_long_entries(LongEntries, obs.iterations)

InitWrap ==
    \/ Begin(TestValidMagicInput,
             after_long_entries(LongEntries, U16Mod \div 2 - 1 - WrapLead))
    \/ \E b \in TruncatedStreams, checks \in BOOLEAN :
          Begin(b, start(whole(b), <<>>, 0, checks))

SpecWrap == InitWrap /\ [][Next]_vars

(***************************************************************************)
(* The tables the properties below are stated against                      *)
(***************************************************************************)
ClaimMagic == <<202, 254, 186, 190>>

RecognizedBytes == {1, 3, 4, 5, 6, 7, 8, 9, 10, 11, 12, 15, 16, 18}

UnsupportedBytes == {7, 8, 9, 10, 11, 12, 15, 16, 18}

ClaimTagName(b) ==
    CASE b = 1 -> "Utf8" [] b = 3 -> "Integer" [] b = 4 -> "Float" [] b = 5 -> "Long"
      [] b = 6 -> "Double" [] b = 7 -> "Class" [] b = 8 -> "String" [] b = 9 -> "FieldRef"
      [] b = 10 -> "MethodRef" [] b = 11 -> "InterfaceMethodRef" [] b = 12 -> "NameAndType"
      [] b = 15 -> "MethodHandle" [] b = 16 -> "MethodType" [] b = 18 -> "InvokeDynamic"
      [] OTHER -> "invalid"

\* The variant the entry with tag byte b is decoded as.
ClaimVariant(b) == IF b \in UnsupportedBytes THEN "Unsupported" ELSE ClaimTagName(b)

\* The payload size of the entry whose tag byte is at offset p of the stream.
PrescribedPayload(p) ==
    LET b == stream[p + 1] IN
    CASE b = 1 -> 2 + (stream[p + 2] * 256 + stream[p + 3])
      [] b \in {3, 4} -> 4
      [] b \in {5, 6} -> 8
      [] b \in {7, 8, 16} -> 2
      [] b \in {9, 10, 11, 12, 18} -> 4
      [] b = 15 -> 3

RECURSIVE ClaimTagOffset(_)
\* The offset of the n-th tag byte: 10 header bytes, then the entries before it.
ClaimTagOffset(n) ==
    IF n = 1 THEN 10
    ELSE LET p == ClaimTagOffset(n - 1) IN p + 1 + PrescribedPayload(p)

Count8(items) == Cardinality({i \in 1..Len(items) : items[i][1] \in {"Long", "Double"}})

(***************************************************************************)
(* The properties                                                          *)
(***************************************************************************)

\* C1: a stream of at least 4 bytes whose first 4 bytes are not CA FE BA BE makes
\* read_from return InvalidMagic carrying exactly those 4 bytes, whatever follows:
\* the call never goes past the magic, the cursor stops at 4, no tag is read.
C1_InvalidMagic ==
    (Len(stream) >= 4 /\ SubSeq(stream, 1, 4) # ClaimMagic) =>
        /\ pc \in {"magic", "done"}
        /\ pc = "done" =>
            /\ result.kind = "InvalidMagic"
            /\ result.bytes = SubSeq(stream, 1, 4)
            /\ reader.pos = 4
            /\ obs.tagReads = 0

\* C1 witness: a stream that differs from the magic in its fourth byte only and
\* goes on with a parsable class file has been rejected.
C1_Witness ==
    /\ pc = "done" /\ result.kind = "InvalidMagic"
    /\ SubSeq(stream, 1, 3) = <<202, 254, 186>>
    /\ Len(stream) > 20

\* C2: on the 10-byte minimal valid header (count field 1) read_from returns
\* the ClassFile of version (10, 10) with an empty constant pool.
C2_MinimalHeaderDecodes ==
    (stream = <<202, 254, 186, 190, 0, 10, 0, 10, 0, 1>> /\ pc = "done") =>
        /\ result.kind = "Ok"
        /\ result.version = <<10, 10>>
        /\ result.constant_pool = <<>>

\* C3: every decoded entry whose tag byte is Long (5) or Double (6) advances the
\* 16-bit slot counter by 2 and every other entry by 1; and when the count field
\* is 3 and the first entry is a Double, one item is decoded, one tag byte is
\* read, and the loop is left.
C3_DoubleFirst ==
    (obs.countField = 3 /\ Len(stream) > 10 /\ stream[11] = 6 /\ obs.iterations >= 1) =>
        /\ obs.iterations = 1
        /\ obs.tagReads = 1
        /\ Len(constant_pool_items) = 1
        /\ pc = "loop" => constant_pool_index >= constant_pool_count

C3_TwoSlotRule ==
    [][ /\ (obs'.iterations = obs.iterations + 1) =>
            constant_pool_index' =
                (constant_pool_index
                 + (IF stream[obs'.tagPos + 1] \in {5, 6} THEN 2 ELSE 1)) % 65536
        /\ C3_DoubleFirst' ]_vars

\* C3 witness: count field 3, a Double first and a further entry after it; the
\* loop has been left after one item, the further entry unread.
C3_Witness ==
    /\ obs.countField = 3 /\ Len(stream) > 10 /\ stream[11] = 6
    /\ pc = "trailer" /\ obs.iterations = 1
    /\ Len(stream) > reader.pos + 8

\* C4: a byte read at a tag position is the stream's byte there; when it is not
\* one of the fourteen discriminants, read_from returns InvalidConstantPoolItemTag
\* carrying it, the cursor stands right after it and no ClassFile is returned;
\* when it is one of them, the conversion yields the tag of that discriminant.
C4_InvalidTag ==
    obs.tagByte >= 0 =>
        /\ obs.tagByte = stream[obs.tagPos + 1]
        /\ obs.tagByte \notin RecognizedBytes =>
            /\ pc = "done"
            /\ result.kind = "InvalidConstantPoolItemTag"
            /\ result.bytes = <<obs.tagByte>>
            /\ reader.pos = obs.tagPos + 1
            /\ ~obs.decoded
        /\ obs.tagByte \in RecognizedBytes => obs.tag = ClaimTagName(obs.tagByte)

\* C4 witness: tag byte 19 was rejected although a parsable rest follows it.
C4_Witness ==
    /\ pc = "done" /\ result.kind = "InvalidConstantPoolItemTag"
    /\ obs.tagByte = 19
    /\ Len(stream) >= reader.pos + 8

\* C5: the value read_from returns is the one it returns when the same bytes
\* arrive in a single read, and the one it returns when they arrive one byte per
\* read.
C5_ChunkingIndependent ==
    pc = "done" =>
        /\ result = read_from(whole(stream), overflow_checks)
        /\ result = read_from(chunked(stream, <<1>>, 1), overflow_checks)

\* C5 witness: a class file with an entry, delivered in several chunks, decoded.
C5_Witness ==
    /\ pc = "done" /\ result.kind = "Ok"
    /\ Len(result.constant_pool) >= 1
    /\ reader.fetches >= 4

\* C6: with a count field of 0 the decrement does not underflow (no panic, a
\* target slot count of 0), and on the 10-byte input of test_valid_magic and
\* test_network read_from returns the ClassFile of version (10, 10) with an empty
\* constant pool.
C6_ZeroCountDecodes ==
    /\ obs.countField = 0 =>
        /\ result.kind # "panic"
        /\ pc \in {"loop", "trailer"} => constant_pool_count = 0
    /\ (stream = <<202, 254, 186, 190, 0, 10, 0, 10, 0, 0>> /\ pc = "done") =>
        /\ result.kind = "Ok"
        /\ result.version = <<10, 10>>
        /\ result.constant_pool = <<>>

\* C7: read_from returns nothing before it is done; a read that met the end of
\* the stream makes it return an I/O error; a failed item decode makes it return
\* an error; and a ClassFile is returned only when no read failed, every tag read
\* led to a decoded item, and the pool returned is the whole accumulated sequence.
C7_NoPartialResult ==
    /\ (pc = "done") <=> (result.kind # "none")
    /\ reader.eof => (pc = "done" /\ result.kind = "IoError")
    /\ (obs.tagByte >= 0 /\ ~obs.decoded) =>
        result.kind \in {"IoError", "Utf8DecodeError", "InvalidConstantPoolItemTag"}
    /\ result.kind = "Ok" =>
        /\ ~reader.eof
        /\ reader.pos <= Len(stream)
        /\ obs.tagReads = obs.iterations
        /\ Len(constant_pool_items) = obs.iterations
        /\ result.constant_pool = constant_pool_items

\* C7 witness: a Utf8 entry whose length prefix exceeds the bytes left ended in
\* an I/O error.
C7_Witness ==
    /\ pc = "done" /\ result.kind = "IoError"
    /\ obs.tagByte = 1 /\ obs.tagReads = 1
    /\ Len(stream) >= 13 /\ stream[12] * 256 + stream[13] > Len(stream) - 13

\* C8: every tag byte is read at the offset the prescribed sizes give (10, then
\* 1 + payload per entry before it); a decoded entry moves the cursor by 1 plus
\* the payload size prescribed for its tag; and the item is Unsupported exactly
\* for the nine unsupported kinds, the variant of its tag otherwise.
C8_PayloadSizes ==
    /\ obs.tagByte >= 0 => obs.tagPos = ClaimTagOffset(obs.tagReads)
    /\ (obs.decoded /\ Len(constant_pool_items) = obs.iterations) =>
        /\ obs.itemEnd - obs.tagPos = 1 + PrescribedPayload(obs.tagPos)
        /\ constant_pool_items[Len(constant_pool_items)][1] = ClaimVariant(obs.tagByte)
        /\ pc = "loop" => reader.pos = obs.itemEnd

\* C8 witness: a Utf8 entry was decoded right after a MethodHandle entry.
C8_Witness ==
    /\ obs.decoded /\ obs.tagReads = 2 /\ Len(constant_pool_items) = 2
    /\ stream[11] = 15 /\ obs.tagByte = 1 /\ obs.tagPos = 14

\* C9: in the loop the item sequence holds the decoded items in stream order,
\* its length is the number of completed decode iterations, the slot counter is
\* that length plus the number of Long/Double items, and a further item is
\* decoded if and only if the counter is less than the count field minus 1.
C9_LoopState ==
    pc \in {"loop", "trailer"} =>
        /\ Len(constant_pool_items) = obs.iterations
        /\ constant_pool_index = Len(constant_pool_items) + Count8(constant_pool_items)
        /\ \A i \in 1..Len(constant_pool_items) :
              constant_pool_items[i][1] = ClaimVariant(stream[ClaimTagOffset(i) + 1])

C9_LoopInvariant ==
    [][ /\ C9_LoopState'
        /\ (obs'.iterations = obs.iterations + 1) =>
              constant_pool_index < obs.countField - 1
        /\ (pc = "loop" /\ constant_pool_index < obs.countField - 1) =>
              pc' # "trailer" ]_vars

\* C10: the slot counter never wraps: it is the number of slots the decoded
\* items take and stays within 16 bits; and once the loop is left, the counter is
\* the target T or T + 1, T + 1 exactly when the last item is a Long or Double
\* decoded in the last slot, after at most T decode iterations.
C10_CounterNeverWraps ==
    /\ pc \in {"loop", "trailer"} =>
        /\ constant_pool_index = obs.slots
        /\ constant_pool_index <= 65535
    /\ pc = "trailer" =>
        /\ constant_pool_count <= constant_pool_index
        /\ constant_pool_index <= constant_pool_count + 1
        /\ obs.iterations <= constant_pool_count
        /\ (constant_pool_index = constant_pool_count + 1) <=>
              (obs.iterations >= 1 /\ obs.tagByte \in {5, 6}
               /\ obs.slots - 2 = constant_pool_count - 1)

====
